---- MODULE Spec2Model ----
(***************************************************************************)
(* Model of prefect.client.secrets.Secret: Secret.__init__ and Secret.get, *)
(* together with the collaborators get() reads: prefect.context ("flow"    *)
(* and "secrets"), prefect.config.cloud.use_local_secrets, json.loads, the *)
(* Client's graphql query and as_nested_dict.                              *)
(*                                                                         *)
(* Python objects are tagged records:                                      *)
(*   None    [t |-> "NoneType"]            bool  [t |-> "bool",  b |-> _]   *)
(*   int     [t |-> "int", n |-> _]        float [t |-> "float", repr |-> _]*)
(*   str     [t |-> "str", s |-> chars]    bytes [t |-> "bytes", s |-> _]   *)
(*   list    [t |-> "list", l |-> seq]     dict  [t |-> "dict",  d |-> fn]  *)
(*   DotDict [t |-> "DotDict", d |-> fn]   (the GraphQL result mapping)     *)
(* A str is a sequence of one-character strings; a dict is a function from *)
(* its keys (character sequences) to its values, so dict equality ignores  *)
(* insertion order as Python's does. A float stands for the number its     *)
(* literal denotes and is kept as that literal.                            *)
(***************************************************************************)
EXTENDS Integers, Sequences, FiniteSets, TLC

VARIABLES flow, secrets, use_local_secrets, remote, self, result, branch,
          queries, prev, step

vars == <<flow, secrets, use_local_secrets, remote, self, result, branch,
          queries, prev, step>>

(***************************************************************************)
(* Python values                                                           *)
(***************************************************************************)
PyNone == [t |-> "NoneType"]

PyBool(b) == [t |-> "bool", b |-> b]

PyInt(n) == [t |-> "int", n |-> n]

PyFloat(lit) == [t |-> "float", repr |-> lit]

PyStr(s) == [t |-> "str", s |-> s]

PyBytes(s) == [t |-> "bytes", s |-> s]

PyList(l) == [t |-> "list", l |-> l]

PyDict(d) == [t |-> "dict", d |-> d]

DotDict(d) == [t |-> "DotDict", d |-> d]

EmptyMap == [k \in {} |-> PyNone]

Key1(k, v) == [x \in {k} |-> v]

(***************************************************************************)
(* json.loads(value), as called on line 59. The outcome is                 *)
(*   [ok |-> TRUE, v |-> the decoded value]  or                            *)
(*   [ok |-> FALSE, exc |-> the exception class raised].                   *)
(* The scanner follows json.decoder / json.scanner: scan_once, JSONArray,  *)
(* JSONObject, py_scanstring (strict), the NUMBER_RE match, the leading    *)
(* and trailing whitespace skip and the "Extra data" check of decode().    *)
(* Not modelled: \uXXXX escapes, the utf-16/utf-32 detection for bytes,    *)
(* the recursion limit and the integer digit limit; no modelled input      *)
(* has any of them.                                                        *)
(***************************************************************************)
Digits == <<"0", "1", "2", "3", "4", "5", "6", "7", "8", "9">>

IsDigit(c) == \E i \in 1..10 : Digits[i] = c

DigitVal(c) == (CHOOSE i \in 1..10 : Digits[i] = c) - 1

Whitespace == {" ", "\t", "\n", "\r"}

ControlChars == {"\t", "\n", "\r", "\f"}

InvalidByte == "xFF"

At(s, i) == IF i >= 1 /\ i <= Len(s) THEN s[i] ELSE ""

StartsWith(s, i, lit) ==
    /\ i + Len(lit) - 1 <= Len(s)
    /\ \A j \in 1..Len(lit) : s[i + j - 1] = lit[j]

RECURSIVE SkipWs(_, _)
SkipWs(s, i) == IF At(s, i) \in Whitespace THEN SkipWs(s, i + 1) ELSE i

RECURSIVE SkipDigits(_, _)
SkipDigits(s, i) == IF IsDigit(At(s, i)) THEN SkipDigits(s, i + 1) ELSE i

RECURSIVE DigitsToInt(_, _, _, _)
DigitsToInt(s, i, j, acc) ==
    IF i >= j THEN acc ELSE DigitsToInt(s, i + 1, j, acc * 10 + DigitVal(s[i]))

Fail == [ok |-> FALSE]

Got(v, end) == [ok |-> TRUE, v |-> v, end |-> end]

\* NUMBER_RE.match at i: (-?(?:0|[1-9]\d*))(\.\d+)?([eE][-+]?\d+)?
MatchNumber(s, i) ==
    LET neg == At(s, i) = "-"
        d0 == IF neg THEN i + 1 ELSE i
        intEnd == IF At(s, d0) = "0" THEN d0 + 1
                  ELSE IF IsDigit(At(s, d0)) THEN SkipDigits(s, d0)
                  ELSE d0
        fracEnd == IF At(s, intEnd) = "." /\ IsDigit(At(s, intEnd + 1))
                   THEN SkipDigits(s, intEnd + 1) ELSE intEnd
        e0 == IF At(s, fracEnd + 1) \in {"+", "-"} THEN fracEnd + 2
              ELSE fracEnd + 1
        expEnd == IF At(s, fracEnd) \in {"e", "E"} /\ IsDigit(At(s, e0))
                  THEN SkipDigits(s, e0) ELSE fracEnd
        mag == DigitsToInt(s, d0, intEnd, 0)
    IN  IF intEnd = d0 THEN Fail
        ELSE IF expEnd > intEnd
             THEN Got(PyFloat(SubSeq(s, i, expEnd - 1)), expEnd)
             ELSE Got(PyInt(IF neg THEN 0 - mag ELSE mag), expEnd)

BACKSLASH(esc) ==
    CASE esc = "\"" -> "\""
      [] esc = "\\" -> "\\"
      [] esc = "/" -> "/"
      [] esc = "n" -> "\n"
      [] esc = "r" -> "\r"
      [] esc = "t" -> "\t"
      [] esc = "f" -> "\f"
      [] OTHER -> ""

\* py_scanstring(s, end, strict=True); i is the index after the opening quote.
RECURSIVE ScanString(_, _, _)
ScanString(s, i, acc) ==
    LET c == At(s, i)
    IN  IF c = "" THEN Fail
        ELSE IF c = "\"" THEN Got(acc, i + 1)
        ELSE IF c \in ControlChars THEN Fail
        ELSE IF c = "\\"
             THEN IF At(s, i + 1) = "" \/ BACKSLASH(At(s, i + 1)) = ""
                  THEN Fail
                  ELSE ScanString(s, i + 2, Append(acc, BACKSLASH(At(s, i + 1))))
        ELSE ScanString(s, i + 1, Append(acc, c))

RECURSIVE ScanOnce(_, _), ArrayItems(_, _, _), ObjectPairs(_, _, _)

\* The loop of JSONArray; i is where the next value starts.
ArrayItems(s, i, acc) ==
    LET item == ScanOnce(s, i)
    IN  IF ~item.ok THEN Fail
        ELSE LET j == SkipWs(s, item.end)
                 vals == Append(acc, item.v)
             IN  IF At(s, j) = "]" THEN Got(PyList(vals), j + 1)
                 ELSE IF At(s, j) = "," THEN ArrayItems(s, SkipWs(s, j + 1), vals)
                 ELSE Fail

\* The loop of JSONObject; i is the index after a key's opening quote.
ObjectPairs(s, i, acc) ==
    LET key == ScanString(s, i, <<>>)
    IN  IF ~key.ok THEN Fail
        ELSE LET c == SkipWs(s, key.end)
             IN  IF At(s, c) # ":" THEN Fail
                 ELSE LET item == ScanOnce(s, SkipWs(s, c + 1))
                      IN  IF ~item.ok THEN Fail
                          ELSE LET j == SkipWs(s, item.end)
                                   d == [x \in DOMAIN acc \cup {key.v} |->
                                           IF x = key.v THEN item.v ELSE acc[x]]
                               IN  IF At(s, j) = "}" THEN Got(PyDict(d), j + 1)
                                   ELSE IF At(s, j) = ","
                                             /\ At(s, SkipWs(s, j + 1)) = "\""
                                        THEN ObjectPairs(s, SkipWs(s, j + 1) + 1, d)
                                   ELSE Fail

\* scan_once(string, idx) of json.scanner.
ScanOnce(s, i) ==
    LET c == At(s, i)
    IN  IF c = "" THEN Fail
        ELSE IF c = "\""
             THEN LET str == ScanString(s, i + 1, <<>>)
                  IN  IF str.ok THEN Got(PyStr(str.v), str.end) ELSE Fail
        ELSE IF c = "{"
             THEN LET j == SkipWs(s, i + 1)
                  IN  IF At(s, j) = "}" THEN Got(PyDict(EmptyMap), j + 1)
                      ELSE IF At(s, j) = "\"" THEN ObjectPairs(s, j + 1, EmptyMap)
                      ELSE Fail
        ELSE IF c = "["
             THEN LET j == SkipWs(s, i + 1)
                  IN  IF At(s, j) = "]" THEN Got(PyList(<<>>), j + 1)
                      ELSE ArrayItems(s, j, <<>>)
        ELSE IF c = "n" /\ StartsWith(s, i, <<"n", "u", "l", "l">>)
             THEN Got(PyNone, i + 4)
        ELSE IF c = "t" /\ StartsWith(s, i, <<"t", "r", "u", "e">>)
             THEN Got(PyBool(TRUE), i + 4)
        ELSE IF c = "f" /\ StartsWith(s, i, <<"f", "a", "l", "s", "e">>)
             THEN Got(PyBool(FALSE), i + 5)
        ELSE IF MatchNumber(s, i).ok THEN MatchNumber(s, i)
        ELSE IF c = "N" /\ StartsWith(s, i, <<"N", "a", "N">>)
             THEN Got(PyFloat(<<"N", "a", "N">>), i + 3)
        ELSE IF c = "I" /\ StartsWith(s, i, <<"I", "n", "f", "i", "n", "i", "t", "y">>)
             THEN Got(PyFloat(SubSeq(s, i, i + 7)), i + 8)
        ELSE IF c = "-" /\ StartsWith(s, i, <<"-", "I", "n", "f", "i", "n", "i", "t", "y">>)
             THEN Got(PyFloat(SubSeq(s, i, i + 8)), i + 9)
        ELSE Fail

\* JSONDecoder.decode(s): one value between optional whitespace, then the end.
Decode(s) ==
    LET r == ScanOnce(s, SkipWs(s, 1))
    IN  IF r.ok /\ SkipWs(s, r.end) = Len(s) + 1
        THEN [ok |-> TRUE, v |-> r.v]
        ELSE [ok |-> FALSE, exc |-> "JSONDecodeError"]

JsonLoads(value) ==
    IF value.t = "str" THEN Decode(value.s)
    ELSE IF value.t = "bytes"
         THEN IF \E i \in 1..Len(value.s) : value.s[i] = InvalidByte
              THEN [ok |-> FALSE, exc |-> "UnicodeDecodeError"]
              ELSE Decode(value.s)
    ELSE [ok |-> FALSE, exc |-> "TypeError"]

(***************************************************************************)
(* json.dumps(v) with its default separators, the encoding the class       *)
(* docstring recommends for local secrets ("store local secrets as JSON    *)
(* documents"). Keys are written in some fixed order; a dict carries none. *)
(***************************************************************************)
RECURSIVE NatToDigits(_)
NatToDigits(n) ==
    IF n < 10 THEN <<Digits[n + 1]>>
    ELSE Append(NatToDigits(n \div 10), Digits[(n % 10) + 1])

RECURSIVE EscapeStr(_)
EscapeStr(s) ==
    IF s = <<>> THEN <<>>
    ELSE LET c == Head(s)
             e == CASE c = "\"" -> <<"\\", "\"">>
                    [] c = "\\" -> <<"\\", "\\">>
                    [] c = "\n" -> <<"\\", "n">>
                    [] c = "\r" -> <<"\\", "r">>
                    [] c = "\t" -> <<"\\", "t">>
                    [] c = "\f" -> <<"\\", "f">>
                    [] OTHER -> <<c>>
         IN  e \o EscapeStr(Tail(s))

Quote(s) == <<"\"">> \o EscapeStr(s) \o <<"\"">>

RECURSIVE JsonDumps(_), DumpItems(_), DumpPairs(_)

DumpItems(l) ==
    IF l = <<>> THEN <<>>
    ELSE IF Len(l) = 1 THEN JsonDumps(l[1])
    ELSE JsonDumps(Head(l)) \o <<",", " ">> \o DumpItems(Tail(l))

DumpPairs(d) ==
    IF DOMAIN d = {} THEN <<>>
    ELSE LET k == CHOOSE x \in DOMAIN d : TRUE
             rest == [x \in DOMAIN d \ {k} |-> d[x]]
             pair == Quote(k) \o <<":", " ">> \o JsonDumps(d[k])
         IN  IF DOMAIN rest = {} THEN pair
             ELSE pair \o <<",", " ">> \o DumpPairs(rest)

JsonDumps(v) ==
    CASE v.t = "NoneType" -> <<"n", "u", "l", "l">>
      [] v.t = "bool" -> IF v.b THEN <<"t", "r", "u", "e">>
                         ELSE <<"f", "a", "l", "s", "e">>
      [] v.t = "int" -> IF v.n < 0 THEN <<"-">> \o NatToDigits(0 - v.n)
                        ELSE NatToDigits(v.n)
      [] v.t = "str" -> Quote(v.s)
      [] v.t = "list" -> <<"[">> \o DumpItems(v.l) \o <<"]">>
      [] v.t = "dict" -> <<"{">> \o DumpPairs(v.d) \o <<"}">>

(***************************************************************************)
(* The inputs the model draws from                                         *)
(***************************************************************************)
Names == {"db_pw", "flag"}

\* prefect.context.get("flow"): no entry, a Flow being built, or an entry
\* that is not a Flow.
FlowEntries == {"absent", "Flow", "NotAFlow"}

\* prefect.config.cloud.use_local_secrets: True, False, or a truthy value
\* that is not the object True (e.g. the string "true").
FlagValues == {"True", "False", "truthy"}

S3cr3t == <<"s", "3", "c", "r", "3", "t">>

\* Raw values of the local mapping in the full state machine.
RawCore ==
    { PyStr(<<"t", "r", "u", "e">>),
      PyStr(<<"4", "2", "a", "b", "c">>),
      PyInt(42) }

KData == <<"d", "a", "t", "a">>

KSecretValue == <<"s", "e", "c", "r", "e", "t", "V", "a", "l", "u", "e">>

KUser == <<"u", "s", "e", "r">>

\* What the remote service holds for a name: a stored value, or a failure
\* the client raises when asked for it.
RemoteEntries ==
    { [ok |-> TRUE, v |-> DotDict(Key1(KUser, PyList(<<DotDict(EmptyMap), PyInt(1)>>)))],
      [ok |-> TRUE, v |-> PyStr(S3cr3t)],
      [ok |-> FALSE, exc |-> "ClientError", msg |-> <<"graphql errors">>],
      [ok |-> FALSE, exc |-> "ConnectionError", msg |-> <<"connection refused">>] }

NoSecrets == [present |-> FALSE]

Mapping(m) == [present |-> TRUE, m |-> m]

LocalMappings(raws) ==
    {NoSecrets} \cup
    UNION {{Mapping(m) : m \in [ks -> raws]} : ks \in SUBSET Names}

(***************************************************************************)
(* Outcomes of a call                                                      *)
(***************************************************************************)
NoResult == [kind |-> "none"]

Return(v) == [kind |-> "return", value |-> v]

Raise(exc, msg) == [kind |-> "raise", exc |-> exc, msg |-> msg]

\* Line 46-48.
BuildingFlowError ==
    Raise("ValueError",
          <<"Secrets should only be retrieved during a Flow run, not while building a Flow.">>)

\* Line 55-57: 'Local Secret "{}" was not found.'.format(self.name)
NotFoundError(name) ==
    Raise("ValueError", <<"Local Secret \"", name, "\" was not found.">>)

(***************************************************************************)
(* Secret.get                                                              *)
(***************************************************************************)
\* Line 45: isinstance(prefect.context.get("flow"), prefect.core.flow.Flow)
IsBuildingFlow(f) == f = "Flow"

\* Line 50: prefect.config.cloud.use_local_secrets is True
UseLocal(flag) == flag = "True"

\* Line 51: prefect.context.get("secrets", {})
ContextSecrets(ctx) == IF ctx.present THEN ctx.m ELSE EmptyMap

\* Lines 58-61: try json.loads(value), fall back to value on JSONDecodeError
\* or TypeError; any other exception of json.loads leaves get().
TryLoads(value, loaded) ==
    IF loaded.ok
    THEN [result |-> Return(loaded.v), branch |-> "decoded", queries |-> <<>>]
    ELSE IF loaded.exc \in {"JSONDecodeError", "TypeError"}
    THEN [result |-> Return(value), branch |-> "raw", queries |-> <<>>]
    ELSE [result |-> Raise(loaded.exc, <<"json.loads">>), branch |-> "loads",
          queries |-> <<>>]

\* LocalGet without the try/except around the lookup: the KeyError escapes.
LocalGet_KeyErrorEscapes(name, ctx) ==
    IF name \notin DOMAIN ContextSecrets(ctx)
    THEN [result |-> Raise("KeyError", <<name>>), branch |-> "missing", queries |-> <<>>]
    ELSE TryLoads(ContextSecrets(ctx)[name], JsonLoads(ContextSecrets(ctx)[name]))

\* LocalGet with secrets.get(self.name): a missing name yields None.
LocalGet_NoneWhenMissing(name, ctx) ==
    IF name \notin DOMAIN ContextSecrets(ctx)
    THEN [result |-> Return(PyNone), branch |-> "missing", queries |-> <<>>]
    ELSE TryLoads(ContextSecrets(ctx)[name], JsonLoads(ContextSecrets(ctx)[name]))

\* LocalGet that returns the stored value without json.loads.
LocalGet_NoDecode(name, ctx) ==
    IF name \notin DOMAIN ContextSecrets(ctx)
    THEN [result |-> NotFoundError(name), branch |-> "missing", queries |-> <<>>]
    ELSE [result |-> Return(ContextSecrets(ctx)[name]), branch |-> "raw", queries |-> <<>>]

\* Lines 51-61, the local branch.
LocalGet(name, ctx) ==
    IF name \notin DOMAIN ContextSecrets(ctx)
    THEN [result |-> NotFoundError(name), branch |-> "missing", queries |-> <<>>]
    ELSE TryLoads(ContextSecrets(ctx)[name], JsonLoads(ContextSecrets(ctx)[name]))

\* Client().graphql(query, name=name): the reply for `name`, a GraphQLResult
\* {data: {secretValue: v}}, or the error the client raises.
Graphql(rem, name) ==
    IF rem[name].ok
    THEN [ok |-> TRUE, reply |-> DotDict(Key1(KData, DotDict(Key1(KSecretValue, rem[name].v))))]
    ELSE rem[name]

\* as_nested_dict(obj, dict): lists element-wise, mappings into plain dicts,
\* recursively; anything else as it is.
RECURSIVE AsNestedDict(_)
AsNestedDict(obj) ==
    IF obj.t = "list"
    THEN PyList([i \in DOMAIN obj.l |-> AsNestedDict(obj.l[i])])
    ELSE IF obj.t \in {"dict", "DotDict"}
    THEN PyDict([k \in DOMAIN obj.d |-> AsNestedDict(obj.d[k])])
    ELSE obj

\* RemoteGet that asks again when the first query fails.
RemoteGet_Retries(name, rem) ==
    LET got == Graphql(rem, name)
    IN  IF got.ok
        THEN [result |-> Return(AsNestedDict(got.reply.d[KData].d[KSecretValue])),
              branch |-> "remote", queries |-> <<name>>]
        ELSE [result |-> Raise(got.exc, got.msg), branch |-> "client",
              queries |-> <<name, name>>]

\* RemoteGet that wraps a client failure in a ValueError.
RemoteGet_WrapsError(name, rem) ==
    LET got == Graphql(rem, name)
    IN  IF got.ok
        THEN [result |-> Return(AsNestedDict(got.reply.d[KData].d[KSecretValue])),
              branch |-> "remote", queries |-> <<name>>]
        ELSE [result |-> Raise("ValueError", got.msg), branch |-> "client",
              queries |-> <<name>>]

\* Lines 63-72, the remote branch.
RemoteGet(name, rem) ==
    LET got == Graphql(rem, name)
    IN  IF got.ok
        THEN [result |-> Return(AsNestedDict(got.reply.d[KData].d[KSecretValue])),
              branch |-> "remote", queries |-> <<name>>]
        ELSE [result |-> Raise(got.exc, got.msg), branch |-> "client",
              queries |-> <<name>>]

\* GetOutcome with the guard placed inside the remote branch only.
GetOutcome_GuardInRemoteOnly(name, f, ctx, flag, rem) ==
    IF UseLocal(flag) THEN LocalGet(name, ctx)
    ELSE IF IsBuildingFlow(f)
    THEN [result |-> BuildingFlowError, branch |-> "guard", queries |-> <<>>]
    ELSE RemoteGet(name, rem)

\* GetOutcome that asks the remote service when the local lookup misses.
GetOutcome_FallsBackToRemote(name, f, ctx, flag, rem) ==
    IF IsBuildingFlow(f)
    THEN [result |-> BuildingFlowError, branch |-> "guard", queries |-> <<>>]
    ELSE IF UseLocal(flag) /\ name \in DOMAIN ContextSecrets(ctx)
    THEN LocalGet(name, ctx)
    ELSE RemoteGet(name, rem)

\* Lines 45-72: the guard, then the branch on the flag.
GetOutcome(name, f, ctx, flag, rem) ==
    IF IsBuildingFlow(f)
    THEN [result |-> BuildingFlowError, branch |-> "guard", queries |-> <<>>]
    ELSE IF UseLocal(flag) THEN LocalGet(name, ctx)
    ELSE RemoteGet(name, rem)

(***************************************************************************)
(* State                                                                   *)
(*   flow, secrets      prefect.context's "flow" and "secrets" entries     *)
(*   use_local_secrets  prefect.config.cloud.use_local_secrets             *)
(*   remote             what the remote secret service answers, per name   *)
(*   self               the Secret object (its only field is name)         *)
(*   result, branch     the outcome of the latest get() and the line of    *)
(*                      get() that produced it                             *)
(*   queries            the names the latest get() sent to the client      *)
(*   prev               the branch of the call before the latest           *)
(*   step               whether the latest step was a get()                *)
(***************************************************************************)
TypeOK ==
    /\ flow \in FlowEntries
    /\ use_local_secrets \in FlagValues
    /\ self.name \in Names
    /\ DOMAIN remote = Names
    /\ step \in {"init", "get", "env"}

Init ==
    /\ flow \in FlowEntries
    /\ secrets \in LocalMappings(RawCore)
    /\ use_local_secrets \in FlagValues
    /\ remote \in [Names -> RemoteEntries]
    /\ self \in [name : Names]
    /\ result = NoResult
    /\ branch = "none"
    /\ queries = <<>>
    /\ prev = "none"
    /\ step = "init"

\* Secret.__init__(name), lines 26-27.
SecretInit(name) ==
    /\ self' = [name |-> name]
    /\ step' = "env"
    /\ UNCHANGED <<flow, secrets, use_local_secrets, remote, result, branch, queries, prev>>

\* get() that takes the entry out of the mapping (secrets.pop(self.name)).
Get_PopsSecret ==
    \E o \in {GetOutcome(self.name, flow, secrets, use_local_secrets, remote)} :
        /\ result' = o.result
        /\ branch' = o.branch
        /\ queries' = o.queries
        /\ prev' = branch
        /\ step' = "get"
        /\ secrets' = IF secrets.present /\ self.name \in DOMAIN secrets.m
                      THEN Mapping([x \in DOMAIN secrets.m \ {self.name} |-> secrets.m[x]])
                      ELSE secrets
        /\ UNCHANGED <<flow, use_local_secrets, remote, self>>

\* get() that keeps the first value it resolved and returns it from then on.
Get_Cached ==
    \E o \in {IF result.kind = "return"
              THEN [result |-> result, branch |-> branch, queries |-> <<>>]
              ELSE GetOutcome(self.name, flow, secrets, use_local_secrets, remote)} :
        /\ result' = o.result
        /\ branch' = o.branch
        /\ queries' = o.queries
        /\ prev' = branch
        /\ step' = "get"
        /\ UNCHANGED <<flow, secrets, use_local_secrets, remote, self>>

\* Secret.get(), lines 29-72. It assigns nothing outside its own frame.
Get ==
    \E o \in {GetOutcome(self.name, flow, secrets, use_local_secrets, remote)} :
        /\ result' = o.result
        /\ branch' = o.branch
        /\ queries' = o.queries
        /\ prev' = branch
        /\ step' = "get"
        /\ UNCHANGED <<flow, secrets, use_local_secrets, remote, self>>

Frame == UNCHANGED <<self, result, branch, queries, prev>>

\* The execution environment enters or leaves a flow-building block.
SetFlow(f) ==
    /\ flow' = f
    /\ step' = "env"
    /\ Frame /\ UNCHANGED <<secrets, use_local_secrets, remote>>

\* The configuration is loaded with another use_local_secrets.
SetFlag(b) ==
    /\ use_local_secrets' = b
    /\ step' = "env"
    /\ Frame /\ UNCHANGED <<flow, secrets, remote>>

\* The environment stores a raw value under a name of the local mapping.
PutSecret(k, v) ==
    /\ secrets' = Mapping([x \in DOMAIN ContextSecrets(secrets) \cup {k} |->
                              IF x = k THEN v ELSE secrets.m[x]])
    /\ step' = "env"
    /\ Frame /\ UNCHANGED <<flow, use_local_secrets, remote>>

\* The environment removes a name from the local mapping.
DelSecret(k) ==
    /\ secrets.present /\ k \in DOMAIN secrets.m
    /\ secrets' = Mapping([x \in DOMAIN secrets.m \ {k} |-> secrets.m[x]])
    /\ step' = "env"
    /\ Frame /\ UNCHANGED <<flow, use_local_secrets, remote>>

\* The context is entered without a "secrets" entry.
DropSecrets ==
    /\ secrets.present
    /\ secrets' = NoSecrets
    /\ step' = "env"
    /\ Frame /\ UNCHANGED <<flow, use_local_secrets, remote>>

\* The remote service's answer for a name changes.
SetRemote(k, e) ==
    /\ remote' = [remote EXCEPT ![k] = e]
    /\ step' = "env"
    /\ Frame /\ UNCHANGED <<flow, secrets, use_local_secrets>>

Next ==
    \/ Get
    \/ \E n \in Names : SecretInit(n)
    \/ \E f \in FlowEntries : SetFlow(f)
    \/ \E b \in FlagValues : SetFlag(b)
    \/ \E k \in Names, v \in RawCore : PutSecret(k, v)
    \/ \E k \in Names : DelSecret(k)
    \/ DropSecrets
    \/ \E k \in Names, e \in RemoteEntries : SetRemote(k, e)

Spec == Init /\ [][Next]_vars

(***************************************************************************)
(* The local branch alone, over a wide set of raw values: JSON documents   *)
(* as json.dumps writes them, hand-written documents, strings that are not *)
(* JSON, and raw values that are not strings.                              *)
(***************************************************************************)
JsonValues ==
    { PyNone, PyBool(TRUE), PyBool(FALSE), PyInt(0), PyInt(42), PyInt(0 - 7),
      PyStr(<<>>), PyStr(S3cr3t), PyStr(<<"4", "2">>),
      PyStr(<<"a", "\"", "b", "\\", "c", "\n">>),
      PyList(<<>>),
      PyList(<<PyInt(1), PyStr(<<"a">>), PyBool(TRUE), PyNone>>),
      PyList(<<PyList(<<PyInt(1)>>), PyList(<<>>)>>),
      PyDict(EmptyMap),
      PyDict(Key1(<<"k">>, PyList(<<PyInt(1), PyInt(2)>>))),
      PyDict([x \in {<<"a">>, <<"b">>} |->
                 IF x = <<"a">> THEN PyInt(1) ELSE PyDict(Key1(<<"c">>, PyNone))]) }

EncodedDocuments == {PyStr(JsonDumps(v)) : v \in JsonValues}

HandWrittenDocuments ==
    { PyStr(<<" ", "t", "r", "u", "e", " ">>),
      PyStr(<<"[", "1", ",", "2", "]">>),
      PyStr(<<"{", "\"", "k", "\"", ":", "n", "u", "l", "l", "}">>),
      PyStr(<<"\"", "a", "\\", "/", "b", "\"">>),
      PyStr(<<"1", ".", "5">>) }

NotJsonStrings ==
    { PyStr(<<"4", "2", "a", "b", "c">>),
      PyStr(<<"n", "o", "t", "-", "j", "s", "o", "n", "{">>),
      PyStr(<<>>),
      PyStr(<<"t", "r", "u">>),
      PyStr(<<"[", "1", ",">>),
      PyStr(<<"{", "\"", "a", "\"", " ", "1", "}">>),
      PyStr(<<"'", "x", "'">>),
      PyStr(<<"\"", "o", "p", "e", "n">>),
      PyStr(<<"0", "1">>),
      PyStr(<<"[", "1", ",", "]">>) }

NotStrings ==
    { PyNone, PyBool(TRUE), PyInt(42), PyList(<<PyInt(1)>>),
      PyDict(Key1(<<"k">>, PyInt(1))),
      PyBytes(<<"t", "r", "u", "e">>),
      PyBytes(<<"n", "o", "p", "e">>),
      PyBytes(<<InvalidByte>>) }

RawValues ==
    EncodedDocuments \cup HandWrittenDocuments \cup NotJsonStrings \cup NotStrings

\* The context is entered with a mapping, context(secrets=m).
SetSecrets(m) ==
    /\ secrets' = Mapping(m)
    /\ step' = "env"
    /\ Frame /\ UNCHANGED <<flow, use_local_secrets, remote>>

InitLocal ==
    /\ flow \in {"absent", "NotAFlow"}
    /\ secrets \in {NoSecrets} \cup {Mapping(Key1(k, v)) : k \in Names, v \in RawValues}
    /\ use_local_secrets = "True"
    /\ remote = [n \in Names |-> [ok |-> TRUE, v |-> PyStr(S3cr3t)]]
    /\ self \in [name : Names]
    /\ result = NoResult
    /\ branch = "none"
    /\ queries = <<>>
    /\ prev = "none"
    /\ step = "init"

NextLocal ==
    \/ Get
    \/ \E n \in Names : SecretInit(n)
    \/ \E k \in Names, v \in RawValues : SetSecrets(Key1(k, v))
    \/ DropSecrets

SpecLocal == InitLocal /\ [][NextLocal]_vars

(***************************************************************************)
(* Properties                                                              *)
(*                                                                         *)
(* A step with step' = "get" is a call of get(); its unprimed variables    *)
(* are the context, configuration and backends the call ran against, its   *)
(* primed result, branch and queries what the call did.                    *)
(***************************************************************************)
GetStep == step' = "get"

GuardPasses == flow # "Flow"

LocalMode == use_local_secrets = "True"

HasEntry == secrets.present /\ self.name \in DOMAIN secrets.m

Entry == secrets.m[self.name]

Failed(r) == r.kind = "raise"

\* C1: a get() made while the context holds a Flow being built raises the
\* flow-building ValueError, in local and in remote mode alike, whatever the
\* local mapping and the remote service hold; it never returns a value.
C1_BuildingFlowRaises ==
    [][GetStep /\ flow = "Flow" =>
          /\ result' = BuildingFlowError
          /\ result'.kind # "return"]_vars

C1_Witness ==
    /\ step = "get" /\ flow = "Flow" /\ result = BuildingFlowError
    /\ use_local_secrets = "False" /\ HasEntry /\ remote[self.name].ok

\* C2: in local mode with the guard passing, a name with no entry in the
\* local mapping (also when the context has no mapping at all) raises the
\* not-found ValueError whose message carries exactly that name.
C2_MissingLocalRaisesNotFound ==
    [][GetStep /\ GuardPasses /\ LocalMode /\ ~HasEntry =>
          /\ Failed(result') /\ result'.exc = "ValueError"
          /\ result'.msg = <<"Local Secret \"", self.name, "\" was not found.">>]_vars

C2_Witness ==
    /\ step = "get" /\ GuardPasses /\ LocalMode /\ ~secrets.present
    /\ Failed(result) /\ result.msg[2] = self.name

\* C3: in local mode with the guard passing, an entry whose raw value is the
\* JSON encoding of v resolves to v: json.dumps, store, get() is the
\* identity on JSON documents. Raw "true" gives True and raw "\"s3cr3t\""
\* gives the string s3cr3t.
C3_JsonRoundTrip ==
    [][GetStep /\ GuardPasses /\ LocalMode /\ HasEntry =>
          /\ \A v \in JsonValues : Entry = PyStr(JsonDumps(v)) => result' = Return(v)
          /\ Entry = PyStr(<<"t", "r", "u", "e">>) => result' = Return(PyBool(TRUE))
          /\ Entry = PyStr(<<"\"">> \o S3cr3t \o <<"\"">>) => result' = Return(PyStr(S3cr3t))]_vars

C3_Witness ==
    /\ step = "get" /\ GuardPasses /\ LocalMode /\ HasEntry
    /\ Entry = PyStr(<<"\"">> \o S3cr3t \o <<"\"">>)
    /\ result = Return(PyStr(S3cr3t))

\* C4: in local mode with the guard passing, resolving a name that has an
\* entry never fails, and a raw value json.loads cannot decode (a string
\* that is not JSON, or a value that is not a string) is returned unchanged.
C4_PresentNeverFails ==
    [][GetStep /\ GuardPasses /\ LocalMode /\ HasEntry =>
          /\ result'.kind = "return"
          /\ ~JsonLoads(Entry).ok => result' = Return(Entry)]_vars

\* C4, the part the code keeps: a string that is not JSON, and a raw value
\* that is neither str nor bytes, come back unchanged.
C4_UndecodableTextReturnedRaw ==
    [][GetStep /\ GuardPasses /\ LocalMode /\ HasEntry
          /\ (Entry \in NotJsonStrings \/ Entry.t \notin {"str", "bytes"}) =>
          result' = Return(Entry)]_vars

\* C5: in remote mode with the guard passing, a get() sends exactly one
\* query, carrying the Secret's name, and an error the client raises reaches
\* the caller as it is: same class, same message.
C5_OneQueryErrorUnmodified ==
    [][GetStep /\ GuardPasses /\ ~LocalMode =>
          /\ queries' = <<self.name>>
          /\ ~remote[self.name].ok =>
                result' = Raise(remote[self.name].exc, remote[self.name].msg)]_vars

C5_Witness ==
    /\ step = "get" /\ GuardPasses /\ ~LocalMode
    /\ ~remote[self.name].ok /\ remote[self.name].exc = "ConnectionError"
    /\ Failed(result) /\ result.exc = "ConnectionError"
    /\ queries = <<self.name>>

\* C6: a get(), succeeding or failing, in either mode, leaves the local
\* mapping, the flow entry of the context, the use_local_secrets flag, the
\* remote store and the Secret's name as they were.
C6_GetIsPureRead ==
    [][GetStep => UNCHANGED <<secrets, flow, use_local_secrets, remote, self>>]_vars

C6_Witness ==
    /\ step = "get" /\ GuardPasses /\ LocalMode /\ HasEntry
    /\ result.kind = "return" /\ prev = "missing"

\* C7: nothing is cached: the outcome of every get() is the one the context,
\* the flag and the backends of that moment give, whatever earlier calls
\* returned; a change made between two calls shows in the second.
C7_NoCaching ==
    [][GetStep =>
          result' = GetOutcome(self.name, flow, secrets, use_local_secrets, remote).result]_vars

C7_Witness ==
    /\ step = "get" /\ prev = "decoded" /\ branch = "missing"
    /\ Failed(result) /\ GuardPasses /\ LocalMode /\ ~HasEntry

ErrorBranches == {"guard", "missing", "client"}

\* C8 as stated: the errors of a flow-building access, of a missing local
\* entry and of a client failure are of pairwise distinct kinds (classes).
C8_DistinctKinds ==
    [][GetStep /\ branch \in ErrorBranches /\ branch' \in ErrorBranches
          /\ branch # branch' => result.exc # result'.exc]_vars

\* C8 amended: a flow-building access and a missing local entry raise the
\* same class, ValueError, and differ in their message; a client failure
\* is of another class than both.
C8_DistinctByMessage ==
    [][GetStep /\ branch \in ErrorBranches /\ branch' \in ErrorBranches
          /\ branch # branch' =>
          IF "client" \in {branch, branch'}
          THEN result.exc # result'.exc
          ELSE /\ result.exc = "ValueError" /\ result'.exc = "ValueError"
               /\ result.msg # result'.msg]_vars

C8_Witness ==
    /\ step = "get" /\ prev = "guard" /\ branch = "missing"
    /\ Failed(result) /\ result.exc = BuildingFlowError.exc

C10_GuardThenBranch ==
    [][GetStep =>
          /\ (queries' # <<>>) <=> (GuardPasses /\ ~LocalMode)
          /\ (GuardPasses /\ ~LocalMode /\ remote[self.name].ok) =>
                result' = Return(AsNestedDict(remote[self.name].v))
          /\ (Failed(result') /\ result' = NotFoundError(self.name)) =>
                (GuardPasses /\ LocalMode)
          /\ (Failed(result') /\ result'.exc \in {"ClientError", "ConnectionError"}) =>
                (GuardPasses /\ ~LocalMode)]_vars

C10_Witness ==
    /\ step = "get" /\ GuardPasses /\ use_local_secrets = "truthy" /\ ~HasEntry
    /\ branch = "remote" /\ queries = <<self.name>>
    /\ result = Return(PyDict(Key1(KUser, PyList(<<PyDict(EmptyMap), PyInt(1)>>))))

====
